---- MODULE Spec2Model ----
(***************************************************************************)
(* Selector resolution and wait engine of the web ability (BrowseTheWeb).  *)
(*                                                                         *)
(* A selector is a string plus SelectorOptions { hasText, subSelector:     *)
(* [selector, options], state, timeout }.  recursiveLocatorLookup composes *)
(* it into one locator and waits until the locator reaches the requested   *)
(* state; the ability's methods then act on the returned locator.          *)
(*                                                                         *)
(* Time is counted in abstract units; the page is a small table document   *)
(* whose rows and cells can be removed, hidden and restored while a        *)
(* resolution is suspended between two polls.                              *)
(***************************************************************************)
EXTENDS Integers, Sequences, FiniteSets, TLC

\* ------------------------------------------------------------------ bounds
\* Levels of subSelector nesting below the top-level selector.
MaxDepth == 2
\* Largest timeout, in time units, a request carries.
MaxTimeout == 2
\* Longest sleep between two polls, in time units (the polling quantum).
Quantum == 2
\* Elapsed time up to which a wait without timeout is followed.
MaxElapsed == 3
\* Largest element count an assertion expects.
MaxCount == 2
\* Most microtask turns attemptsTo takes before it calls performAs.
MaxHops == 2

\* ------------------------------------------------------------------- state
VARIABLES
  doc,      \* the page's document
  pc,       \* position of the resolution call: idle, eval, waiting, returned, failed
  req,      \* the call in progress: method, selector, state, timeout
  elapsed,  \* time units since the call started
  evals,    \* evaluations of the locator state this call has made
  handle,   \* the elements the returned locator refers to at its return
  err,      \* the error the call failed with
  first,    \* the handle of the first of two successive resolutions
  action,   \* the Action instance under construction or being performed
  stage,    \* position of the Action: idle, constructed, lookup, resolved, done, failed
  lookups,  \* calls of recursiveLocatorLookup the Action has made
  resolved, \* the handles those calls have returned, in order
  effects,  \* the interactions the Action has performed on the page
  assertion, \* the expectation a retrying assertion is checking
  test,       \* the event a test waits for while it clicks, and its scheduling
  micro,      \* the microtask queue of the test process
  browser,    \* the requests sent to the browser and not yet handled
  wire,       \* the messages of the browser not yet delivered to the test
  listener,   \* the event listener the wait has registered
  waitResult, \* what the promise of the wait has settled with
  clickResult, \* what the promise of the click has settled with
  missed,     \* an event was delivered while no listener waited for it
  page,       \* this.page, the page the ability works on
  front,      \* the page the browser shows in front
  brought,    \* the pages of the last and of the last but one bringToFront
  used,       \* the last page-level call: the page it worked on, its result
  localStorage,   \* the local storage of the page: key -> stored string
  sessionStorage, \* the session storage of the page: key -> stored string
  written,    \* per storage and key, what the last Set or Remove did
  got,        \* the Get just made, if any: its key, what it returned or threw
  question,   \* the Element or Screen instance a test has built, its fields
  answer,     \* what answeredBy did: the check it called, what came of it
  chain,      \* the operators called on the instance: the last one, how many
  request,    \* the request Action instance: its method class, url, headers
  sent,       \* the request the ability has sent for it
  configure,  \* the Configure instance: its mode, geolocation, network
  context     \* the browser context's geolocation and network, the outcome

\* The state of a call of the ability that resolves or asserts on a locator.
resolverVars == <<doc, pc, req, elapsed, evals, handle, err, first>>

\* The state of the Action layer.
actionVars == <<action, stage, lookups, resolved, effects>>

\* The state of a test that waits for an event and triggers it.
eventVars ==
  <<test, micro, browser, wire, listener, waitResult, clickResult, missed>>

\* The pages of the ability and of the browser.
pageVars == <<page, front, brought, used>>

\* The storages of the page.
storageVars == <<localStorage, sessionStorage, written, got>>

\* The Element or Screen question a test asks.
questionVars == <<question, answer, chain>>

\* The request of the API layer.
apiVars == <<request, sent>>

\* The configuration of the browser context.
contextVars == <<configure, context>>

\* The questions, the API requests and the context configuration.
actorVars == <<questionVars, apiVars, contextVars>>

\* Everything outside the resolution call itself.
aux == <<actionVars, assertion, eventVars, pageVars, storageVars, actorVars>>

\* Everything outside the Action layer.
exceptAction ==
  <<resolverVars, assertion, eventVars, pageVars, storageVars,
    actorVars>>

\* Everything outside a count assertion.
exceptCount ==
  <<actionVars, eventVars, pageVars, storageVars,
    actorVars>>

\* Everything outside the event test.
exceptEvent ==
  <<resolverVars, actionVars, assertion, pageVars, storageVars,
    actorVars>>

\* Everything outside the pages.
exceptPage ==
  <<resolverVars, actionVars, assertion, eventVars, storageVars,
    actorVars>>

\* Everything outside the question.
exceptQuestion ==
  <<resolverVars, actionVars, assertion, eventVars, pageVars, storageVars,
    apiVars, contextVars>>

\* Everything outside the API request.
exceptApi ==
  <<resolverVars, actionVars, assertion, eventVars, pageVars, storageVars,
    questionVars, contextVars>>

\* Everything outside the context configuration.
exceptContext ==
  <<resolverVars, actionVars, assertion, eventVars, pageVars, storageVars,
    questionVars, apiVars>>

\* Everything outside the storages.
exceptStorage ==
  <<resolverVars, actionVars, assertion, eventVars, pageVars,
    actorVars>>

vars == <<doc, pc, req, elapsed, evals, handle, err, first, aux>>

\* ------------------------------------------------------------ the document
\* The page of the "Wait + Recursive Locators" test: a table with two rows
\* of one cell each.  PageRoot is the page itself, the root of every lookup.
PageRoot == "page"

Elements == {"table", "tr1", "td1", "tr2", "td2"}

Tags == {"table", "tr", "td"}

Tag ==
  [e \in Elements |->
     CASE e = "table" -> "table"
       [] e \in {"tr1", "tr2"} -> "tr"
       [] OTHER -> "td"]

Parent ==
  [e \in Elements |->
     CASE e = "table" -> PageRoot
       [] e \in {"tr1", "tr2"} -> "table"
       [] e = "td1" -> "tr1"
       [] OTHER -> "tr2"]

\* The text a cell renders itself; rows and the table render their cells'.
OwnText ==
  [e \in Elements |->
     CASE e = "td1" -> "Conway"
       [] e = "td2" -> "Smith"
       [] OTHER -> "none"]

\* The elements the page's scripts add, remove, hide and show.
Mutable == {"td1", "tr2"}

\* A document state: each mutable node is shown, styled invisible, or removed
\* from the DOM.
Docs == [Mutable -> {"shown", "hidden", "removed"}]

\* The chain of nodes from e up to, not including, the page.
RECURSIVE Chain(_)
Chain(e) == IF e = PageRoot THEN {} ELSE {e} \cup Chain(Parent[e])

ChainOf == [e \in Elements |-> Chain(e)]

AncestorsOrSelf(e) == ChainOf[e]

Ancestors(e) == AncestorsOrSelf(e) \ {e}

\* e is in the DOM: neither it nor an ancestor has been removed.
IsAttached(d, e) ==
  \A a \in AncestorsOrSelf(e) \cap Mutable : d[a] # "removed"

\* e has a non-empty bounding box: it is attached and neither it nor an
\* ancestor is styled invisible.
IsVisible(d, e) ==
  \A a \in AncestorsOrSelf(e) \cap Mutable : d[a] = "shown"

\* The rendered text of e: its own and that of the attached nodes inside it.
TextContent(d, e) ==
  {OwnText[x] : x \in {y \in Elements : e \in AncestorsOrSelf(y) /\ IsAttached(d, y)}}
    \ {"none"}

\* --------------------------------------------------------------- selectors
HasTexts == {"none", "Conway"}

\* One level of a selector: the selector string and its hasText option.
Level == [sel : Tags, hasText : HasTexts]

\* A selector with its nested subSelector options, outermost level first:
\* <<l1, l2, l3>> stands for
\*   (l1.sel, {hasText: l1.hasText,
\*             subSelector: [l2.sel, {hasText: l2.hasText,
\*                                    subSelector: [l3.sel, {hasText: l3.hasText}]}]}).
\* The selectors tried are those whose levels go down the table's structure
\* (table, row, cell), with or without a hasText at each level.
Nests(s) == \A i \in 1..(Len(s) - 1) : <<s[i].sel, s[i + 1].sel>> \in
               {<<"table", "tr">>, <<"table", "td">>, <<"tr", "td">>}

Selectors ==
  {s \in UNION {[1..n -> Level] : n \in 1..(MaxDepth + 1)} : Nests(s)}

States == {"attached", "detached", "visible", "hidden"}

\* options.state as the caller passes it; "undefined" leaves it out.
StateOptions == States \cup {"undefined"}

Timeouts == 0..MaxTimeout

\* ------------------------------------------------------ locator composition
\* Find with the roots ignored: a sub-selector looked up on the whole page
\* instead of inside the matches of its parent.
Find_Anywhere(d, roots, sel) ==
  {e \in Elements : IsAttached(d, e) /\ Tag[e] = sel /\ roots # {}}

\* roots.locator(sel): the attached elements with tag sel inside a root; the
\* page is a root of every element.
Find(d, roots, sel) ==
  {e \in Elements :
     /\ IsAttached(d, e)
     /\ Tag[e] = sel
     /\ \E r \in roots : r = PageRoot \/ r \in Ancestors(e)}

\* FilterText matching the element's own text only, not the text rendered
\* by the nodes inside it.
FilterText_OwnTextOnly(d, set, t) ==
  IF t = "none" THEN set ELSE {e \in set : IsAttached(d, e) /\ OwnText[e] = t}

\* The hasText option: keep the elements whose rendered text contains t.
FilterText(d, set, t) ==
  IF t = "none" THEN set ELSE {e \in set : t \in TextContent(d, e)}

\* The chain  l1.sel >> has-text l1.hasText >> l2.sel >> ... : every level
\* is looked up inside the matches of the level before it.
RECURSIVE LookupFrom(_, _, _)
LookupFrom(d, roots, s) ==
  IF s = << >>
    THEN roots
    ELSE LookupFrom(d, FilterText(d, Find(d, roots, Head(s).sel), Head(s).hasText),
                    Tail(s))

\* Lookup that keeps the top-level matches having the sub-selector chain
\* inside them, instead of descending into the chain.
Lookup_ParentHas(d, s) ==
  {e \in LookupFrom(d, {PageRoot}, <<Head(s)>>) :
     Tail(s) = << >> \/ LookupFrom(d, {e}, Tail(s)) # {}}

\* Lookup that stops after the first subSelector and drops the nested ones.
Lookup_OneLevel(d, s) ==
  LookupFrom(d, {PageRoot}, IF Len(s) > 2 THEN SubSeq(s, 1, 2) ELSE s)

\* Lookup whose sub-selector narrowing is applied again on every retry.
Lookup_Renarrowed(d, s) ==
  LookupFrom(d, {PageRoot}, IF evals = 0 THEN s ELSE s \o Tail(s))

\* The elements the composed locator of selector s refers to in document d.
Lookup(d, s) == LookupFrom(d, {PageRoot}, s)

\* ------------------------------------------------------------ state waiting
\* options.state, 'visible' when the caller leaves it out.
EffectiveState(st) == IF st = "undefined" THEN "visible" ELSE st

\* StateSatisfied taking any attached match for a visible one.
StateSatisfied_VisibleIsAttached(st, d, m) ==
  CASE st = "attached" -> m # {}
    [] st = "detached" -> m = {}
    [] st = "visible"  -> m # {}
    [] st = "hidden"   -> \A e \in m : ~IsVisible(d, e)

\* StateSatisfied asking hidden for an element that is there.
StateSatisfied_HiddenNeedsElement(st, d, m) ==
  CASE st = "attached" -> m # {}
    [] st = "detached" -> m = {}
    [] st = "visible"  -> \E e \in m : IsVisible(d, e)
    [] st = "hidden"   -> m # {} /\ \A e \in m : ~IsVisible(d, e)

\* Whether the matches m of a locator satisfy the state waited for.
StateSatisfied(st, d, m) ==
  CASE st = "attached" -> m # {}
    [] st = "detached" -> m = {}
    [] st = "visible"  -> \E e \in m : IsVisible(d, e)
    [] st = "hidden"   -> \A e \in m : ~IsVisible(d, e)

\* Expired taking a timeout of 0 for a deadline of 0.
Expired_ZeroIsDeadline(timeout, t) == t >= timeout

\* Expired one comparison late: the deadline itself is not yet past.
Expired_Late(timeout, t) == timeout # 0 /\ t > timeout

\* The deadline has passed; a timeout of 0 disables the deadline.
Expired(timeout, t) == timeout # 0 /\ t >= timeout

\* Verdict of a loop that sleeps once before it looks at the state.
Verdict_SleepFirst(n, sat, expired) ==
  IF n > 1 THEN "ambiguous"
  ELSE IF evals = 0 /\ ~expired THEN "retry"
  ELSE IF sat THEN "return"
  ELSE IF expired THEN "timeout"
  ELSE "retry"

\* Verdict without the uniqueness check: several matches go through.
Verdict_PickFirst(n, sat, expired) ==
  IF sat THEN "return"
  ELSE IF expired THEN "timeout"
  ELSE "retry"

\* Verdict that returns a locator only when it matches an element.
Verdict_NeedsMatch(n, sat, expired) ==
  IF n > 1 THEN "ambiguous"
  ELSE IF sat /\ n = 1 THEN "return"
  ELSE IF expired THEN "timeout"
  ELSE "retry"

\* What one evaluation of the locator leads to, given the number n of
\* matches, whether the state is satisfied and whether the deadline passed.
Verdict(n, sat, expired) ==
  IF n > 1 THEN "ambiguous"
  ELSE IF sat THEN "return"
  ELSE IF expired THEN "timeout"
  ELSE "retry"

NoReq == [op |-> "none", sel |-> << >>, state |-> "visible", timeout |-> 0]

NoFirst == [valid |-> FALSE, handle |-> {}]

\* The empty string, the default of Press's selector argument.
EmptySelector == <<[sel |-> "", hasText |-> "none"]>>

NoAction ==
  [type |-> "none", selector |-> EmptySelector, source |-> EmptySelector,
   sequential |-> FALSE]

NoAssertion == [count |-> 0, positive |-> TRUE]

\* The page the ability was created with (BrowseTheWeb.using(page)), the
\* page a click on it opens, and one more.
Pages == {"page", "newPage", "otherPage"}

FirstPage == "page"

NoBring == [now |-> "none", before |-> "none"]

NoUse == [call |-> "none", on |-> "none", explicit |-> FALSE, result |-> "none"]

Keys == {"localKey", "sessionKey"}

Storages == {"localStorage", "sessionStorage"}

\* getItem of a key that is not stored: null.
Absent == "null (no item)"

\* The values of the page's JavaScript that are stored and read back.
String(text) == [type |-> "string", val |-> text]

Number(text) == [type |-> "number", val |-> text]

Null == [type |-> "null", val |-> "null"]

Undefined == [type |-> "undefined", val |-> "undefined"]

\* An exception thrown in the page.
Throws(name) == [type |-> "throws", val |-> name]

\* What has happened to a key that holds no value of a Set.
Never == [type |-> "never", val |-> ""]

Removed == [type |-> "removed", val |-> ""]

NoGet == [storage |-> "none", key |-> "none", was |-> Never, result |-> Undefined]

NoTest == [mode |-> "none", event |-> "none", waitHops |-> 0, clickHops |-> 0]

NoListener == [scope |-> "none", event |-> "none"]

\* A question's or operator's options when none are passed.
NoOptions == [timeout |-> "undefined", flag |-> "undefined"]

NoQuestion ==
  [kind |-> "none", locator |-> EmptySelector, page |-> "undefined",
   positive |-> TRUE, mode |-> "none", payload |-> String(""),
   options |-> NoOptions]

NoAnswer ==
  [check |-> "none", positive |-> TRUE, payload |-> String(""),
   options |-> NoOptions, on |-> "none", result |-> "none"]

NoCall == [op |-> "none", payload |-> String(""), options |-> NoOptions]

NoChain == [last |-> NoCall, modes |-> 0, nots |-> 0]

NoRequest ==
  [type |-> "none", url |-> "none", headers |-> "none",
   responseBodyFormat |-> "none", data |-> "undefined"]

NoSent ==
  [method |-> "none", url |-> "none", headers |-> "none",
   responseBodyFormat |-> "none", data |-> "undefined"]

NoConfigure ==
  [mode |-> "none", geolocation |-> Undefined, network |-> "undefined"]

NoContext ==
  [geolocation |-> Never, offline |-> FALSE, call |-> "none",
   result |-> "none"]

\* No Action has been constructed, nothing is being asserted, no test runs.
AuxInit ==
  /\ action = NoAction
  /\ stage = "idle"
  /\ lookups = 0
  /\ resolved = << >>
  /\ effects = << >>
  /\ assertion = NoAssertion
  /\ test = NoTest
  /\ micro = << >>
  /\ browser = << >>
  /\ wire = << >>
  /\ listener = NoListener
  /\ waitResult = "pending"
  /\ clickResult = "pending"
  /\ missed = FALSE
  /\ page = FirstPage
  /\ front = FirstPage
  /\ brought = NoBring
  /\ used = NoUse
  /\ localStorage = [k \in Keys |-> Absent]
  /\ sessionStorage = [k \in Keys |-> Absent]
  /\ written = [s \in Storages |-> [k \in Keys |-> Never]]
  /\ got = NoGet
  /\ question = NoQuestion
  /\ answer = NoAnswer
  /\ chain = NoChain
  /\ request = NoRequest
  /\ sent = NoSent
  /\ configure = NoConfigure
  /\ context = NoContext

Init ==
  /\ doc \in Docs
  /\ pc = "idle"
  /\ req = NoReq
  /\ elapsed = 0
  /\ evals = 0
  /\ handle = {}
  /\ err = "none"
  /\ first = NoFirst
  /\ AuxInit

\* recursiveLocatorLookup({page, selector, options}) is entered.
Enter(op, s, st, timeout) ==
  /\ pc = "idle"
  /\ req' = [op |-> op, sel |-> s, state |-> st, timeout |-> timeout]
  /\ pc' = "eval"
  /\ elapsed' = 0
  /\ evals' = 0
  /\ handle' = {}
  /\ err' = "none"
  /\ UNCHANGED <<doc, first>>
  /\ UNCHANGED aux

\* BrowseTheWeb.waitForSelector(selector, options)
waitForSelector ==
  \E s \in Selectors, st \in StateOptions, t \in Timeouts :
    Enter("waitForSelector", s, EffectiveState(st), t)

\* BrowseTheWeb.click(selector, options): the lookup that precedes the click.
click ==
  \E s \in Selectors, st \in StateOptions, t \in Timeouts :
    Enter("click", s, EffectiveState(st), t)

\* BrowseTheWeb.checkVisibilityState(selector, positive, options): the lookup
\* runs with state forced to visible or hidden.
checkVisibilityState ==
  \E s \in Selectors, positive \in BOOLEAN, t \in Timeouts :
    Enter("checkVisibilityState", s, IF positive THEN "visible" ELSE "hidden", t)

\* One evaluation of the composed locator against the current document.
Evaluate ==
  /\ pc = "eval"
  /\ LET m == Lookup(doc, req.sel)
         v == Verdict(Cardinality(m), StateSatisfied(req.state, doc, m),
                      Expired(req.timeout, elapsed))
     IN /\ pc' = CASE v = "return" -> "returned"
                    [] v = "retry"  -> "waiting"
                    [] OTHER        -> "failed"
        /\ handle' = IF v = "return" THEN m ELSE {}
        /\ err' = CASE v = "ambiguous" -> "AmbiguousMatchError"
                     [] v = "timeout"   -> "ResolutionTimeoutError"
                     [] OTHER           -> "none"
  /\ evals' = evals + 1
  /\ UNCHANGED <<doc, req, elapsed, first>>
  /\ UNCHANGED aux

\* The suspended call sleeps for at most one polling quantum and evaluates
\* again.
Poll ==
  /\ pc = "waiting"
  /\ \E dt \in 1..Quantum :
       /\ req.timeout # 0 \/ elapsed + dt <= MaxElapsed
       /\ elapsed' = elapsed + dt
  /\ pc' = "eval"
  /\ UNCHANGED <<doc, req, evals, handle, err, first>>
  /\ UNCHANGED aux

\* The page changes by itself while no resolution is running or while one is
\* suspended between two polls or an assertion between two retries.
Mutate ==
  /\ pc \in {"idle", "waiting", "expectWait"}
  /\ \E e \in Mutable, k \in {"shown", "hidden", "removed"} :
       /\ doc[e] # k
       /\ doc' = [doc EXCEPT ![e] = k]
  /\ UNCHANGED <<pc, req, elapsed, evals, handle, err, first>>
  /\ UNCHANGED aux

\* The caller resolves the same selector once more, right after the first
\* resolution returned.
ResolveAgain ==
  /\ pc = "returned"
  /\ ~first.valid
  /\ first' = [valid |-> TRUE, handle |-> handle]
  /\ pc' = "eval"
  /\ elapsed' = 0
  /\ evals' = 0
  /\ handle' = {}
  /\ UNCHANGED <<doc, req, err>>
  /\ UNCHANGED aux

\* The call is over: its locator or its error has gone to the caller.
Finish ==
  /\ pc \in {"returned", "failed"}
  /\ pc' = "idle"
  /\ req' = NoReq
  /\ elapsed' = 0
  /\ evals' = 0
  /\ handle' = {}
  /\ err' = "none"
  /\ first' = NoFirst
  /\ UNCHANGED doc
  /\ UNCHANGED aux

Next ==
  \/ waitForSelector
  \/ click
  \/ checkVisibilityState
  \/ Evaluate
  \/ Poll
  \/ Mutate
  \/ ResolveAgain
  \/ Finish

Spec == Init /\ [][Next]_vars

TypeOK ==
  /\ doc \in Docs
  /\ pc \in {"idle", "eval", "waiting", "returned", "failed"}
  /\ req = NoReq \/ (req.sel \in Selectors /\ req.state \in States /\ req.timeout \in Timeouts)
  /\ handle \subseteq Elements
  /\ err \in {"none", "AmbiguousMatchError", "ResolutionTimeoutError"}

\* ------------------------------------------------------------- the Actions
\* An Action is constructed by a static factory and later performed by
\* performAs, which calls one method of the ability.  The method resolves the
\* selectors it was given and then interacts with the returned locator.  The
\* resolution is followed here as one step: it returns when one evaluation of
\* the composed locator finds it unique and visible, and fails otherwise.

\* The selectors an Action may be given: any selector, or the empty string.
ActionSelectors == Selectors \cup {EmptySelector}

\* A constructor that validates: an empty selector yields no instance.
NewAction_Validating(type, selector, source, sequential) ==
  IF selector = EmptySelector THEN NoAction
  ELSE [type |-> type, selector |-> selector, source |-> source,
        sequential |-> sequential]

\* The private constructors store their arguments as they are.
NewAction(type, selector, source, sequential) ==
  [type |-> type, selector |-> selector, source |-> source,
   sequential |-> sequential]

\* A factory has made the instance a.
Constructed(a) ==
  /\ stage = "idle"
  /\ action' = a
  /\ stage' = "constructed"
  /\ UNCHANGED <<lookups, resolved, effects>>
  /\ UNCHANGED exceptAction

\* Press.key(keys): new Press(keys), the selector defaults to "".
Press_key ==
  Constructed(NewAction("Press", EmptySelector, EmptySelector, FALSE))

\* Press.characters(selector, input, options)
Press_characters ==
  \E s \in ActionSelectors :
    Constructed(NewAction("Press", s, EmptySelector, TRUE))

\* Click.on(selector, options)
Click_on ==
  \E s \in ActionSelectors :
    Constructed(NewAction("Click", s, EmptySelector, FALSE))

\* Fill.in(selector, input, options)
Fill_in ==
  \E s \in ActionSelectors :
    Constructed(NewAction("Fill", s, EmptySelector, FALSE))

\* DragAndDrop.execute(sourceSelector, targetSelector, options)
DragAndDrop_execute ==
  \E src \in ActionSelectors, tgt \in ActionSelectors :
    Constructed(NewAction("DragAndDrop", tgt, src, FALSE))

\* Every method resolving exactly one selector.
LookupsOf_Once(a) == 1

\* The calls of recursiveLocatorLookup the ability's method makes for the
\* Action a: dragAndDrop resolves the target and then the source, press
\* resolves nothing, every other method resolves its one selector.
LookupsOf(a) ==
  CASE a.type = "DragAndDrop"             -> 2
    [] a.type = "Press" /\ ~a.sequential  -> 0
    [] OTHER                              -> 1

\* The selector the n-th lookup of the Action a resolves.
CurrentSelector(a, n) ==
  IF a.type = "DragAndDrop" /\ n = 2 THEN a.source ELSE a.selector

\* performAs(actor): the ability's method is called.  press() acts on the
\* keyboard at once; the other methods start with a lookup.
performAs ==
  /\ stage = "constructed"
  /\ IF LookupsOf(action) = 0
     THEN /\ effects' = Append(effects, [kind |-> action.type, on |-> {}])
          /\ stage' = "done"
          /\ UNCHANGED lookups
     ELSE /\ stage' = "lookup"
          /\ lookups' = 1
          /\ UNCHANGED effects
  /\ UNCHANGED <<action, resolved>>
  /\ UNCHANGED exceptAction

\* The lookup in progress ends: it returns the locator, and the method goes
\* on with its next lookup or with the interaction, or it throws.
LookupEnds ==
  /\ stage = "lookup"
  /\ LET m == Lookup(doc, CurrentSelector(action, lookups))
         v == Verdict(Cardinality(m), StateSatisfied("visible", doc, m), TRUE)
     IN IF v = "return"
        THEN /\ resolved' = Append(resolved, m)
             /\ IF lookups < LookupsOf(action)
                THEN lookups' = lookups + 1 /\ stage' = "lookup"
                ELSE UNCHANGED lookups /\ stage' = "resolved"
        ELSE /\ stage' = "failed"
             /\ UNCHANGED <<lookups, resolved>>
  /\ UNCHANGED <<action, effects>>
  /\ UNCHANGED exceptAction

\* An interaction that does not wait for the lookup to return.
Interact_BeforeReturn ==
  /\ stage = "lookup"
  /\ effects' = Append(effects, [kind |-> action.type, on |-> {}])
  /\ UNCHANGED <<action, stage, lookups, resolved>>
  /\ UNCHANGED exceptAction

\* The method interacts with the locator its last lookup returned:
\* (await recursiveLocatorLookup(...)).click(...), .fill(...), .dragTo(...).
Interact ==
  /\ stage = "resolved"
  /\ effects' = Append(effects, [kind |-> action.type,
                                 on |-> resolved[Len(resolved)]])
  /\ stage' = "done"
  /\ UNCHANGED <<action, lookups, resolved>>
  /\ UNCHANGED exceptAction

\* performAs has resolved or rejected; the instance is dropped.
ActionDone ==
  /\ stage \in {"done", "failed"}
  /\ action' = NoAction
  /\ stage' = "idle"
  /\ lookups' = 0
  /\ resolved' = << >>
  /\ effects' = << >>
  /\ UNCHANGED exceptAction

ActionNext ==
  \/ Press_key
  \/ Press_characters
  \/ Click_on
  \/ Fill_in
  \/ DragAndDrop_execute
  \/ performAs
  \/ LookupEnds
  \/ Interact
  \/ ActionDone

ActionSpec == Init /\ [][ActionNext]_vars

\* ------------------------------------------------------ pre-built Locators
\* A Selector is a string or a Locator the caller built with page.locator.
\* Given a Locator, the ability skips page.locator(selector) and goes on as
\* with a string: the hasText and subSelector options are composed onto the
\* Locator and the composed locator is waited for (waitForLocator awaits
\* locator.waitFor(options)).  The first level of the selector stands for
\* the Locator, its sel being the query the Locator was built from.

\* The elements the pre-built Locator of the selector s matches by itself.
BareLocator(d, s) == Find(d, {PageRoot}, s[1].sel)

\* A Locator taken as already resolved: it is returned as it is.
waitForLocator_Bypass ==
  /\ pc = "idle"
  /\ \E s \in Selectors, st \in StateOptions, t \in Timeouts :
       /\ req' = [op |-> "waitForLocator", sel |-> s,
                  state |-> EffectiveState(st), timeout |-> t]
       /\ handle' = BareLocator(doc, s)
  /\ pc' = "returned"
  /\ elapsed' = 0
  /\ evals' = 0
  /\ err' = "none"
  /\ UNCHANGED <<doc, first, aux>>

\* Wait.forSelector(locator, options) / BrowseTheWeb.waitForLocator(locator,
\* options)
waitForLocator ==
  \E s \in Selectors, st \in StateOptions, t \in Timeouts :
    Enter("waitForLocator", s, EffectiveState(st), t)

LocatorNext ==
  \/ waitForLocator
  \/ Evaluate
  \/ Poll
  \/ Mutate
  \/ Finish

LocatorSpec == Init /\ [][LocatorNext]_vars

\* ------------------------------------------------------- count assertions
\* checkSelectorCount(selector, count, positive, options) turns the selector
\* into page.locator(selector), without options and without
\* recursiveLocatorLookup, and awaits expect(locator).toHaveCount(count) or
\* its negation; the assertion retries until it passes or its timeout ends.

Counts == 0..MaxCount

\* A count assertion that insists on a single match.
CountVerdict_Unique(n, count, positive, expired) ==
  IF n > 1 THEN "fail"
  ELSE IF (n = count) = positive THEN "pass"
  ELSE IF expired THEN "fail"
  ELSE "retry"

\* What one evaluation of expect(locator).toHaveCount(count), or of its
\* negation when positive is false, leads to, n being the number of elements
\* the locator matches.
CountVerdict(n, count, positive, expired) ==
  IF (n = count) = positive THEN "pass"
  ELSE IF expired THEN "fail"
  ELSE "retry"

\* BrowseTheWeb.checkSelectorCount(selector, count, positive, options)
checkSelectorCount ==
  /\ pc = "idle"
  /\ \E tag \in Tags, n \in Counts, positive \in BOOLEAN,
        t \in Timeouts \ {0} :
       /\ req' = [op |-> "checkSelectorCount",
                  sel |-> <<[sel |-> tag, hasText |-> "none"]>>,
                  state |-> "attached", timeout |-> t]
       /\ assertion' = [count |-> n, positive |-> positive]
  /\ pc' = "expect"
  /\ elapsed' = 0
  /\ evals' = 0
  /\ handle' = {}
  /\ err' = "none"
  /\ UNCHANGED <<doc, first, exceptCount>>

\* One evaluation of the retrying assertion.
toHaveCount ==
  /\ pc = "expect"
  /\ LET m == Lookup(doc, req.sel)
         v == CountVerdict(Cardinality(m), assertion.count,
                           assertion.positive, Expired(req.timeout, elapsed))
     IN /\ pc' = CASE v = "pass"  -> "returned"
                    [] v = "retry" -> "expectWait"
                    [] OTHER       -> "failed"
        /\ err' = IF v = "fail" THEN "AssertionError" ELSE "none"
  /\ UNCHANGED <<doc, req, elapsed, evals, handle, first, aux>>

\* The assertion sleeps before it evaluates again.
Retry ==
  /\ pc = "expectWait"
  /\ \E dt \in 1..Quantum : elapsed' = elapsed + dt
  /\ pc' = "expect"
  /\ UNCHANGED <<doc, req, evals, handle, err, first, aux>>

\* The assertion is over: true has been returned or the error thrown.
CountDone ==
  /\ pc \in {"returned", "failed"}
  /\ pc' = "idle"
  /\ req' = NoReq
  /\ assertion' = NoAssertion
  /\ elapsed' = 0
  /\ err' = "none"
  /\ UNCHANGED <<doc, evals, handle, first, exceptCount>>

CountNext ==
  \/ checkSelectorCount
  \/ toHaveCount
  \/ Retry
  \/ Mutate
  \/ CountDone

CountSpec == Init /\ [][CountNext]_vars

\* The document with nothing hidden or removed.
Shown == [e \in Mutable |-> "shown"]

\* ------------------------------------------------------ waiting for events
\* A test awaits Promise.all([attemptsTo(Wait.forEvent(e)), attemptsTo(
\* Click.on(l))]).  Both attemptsTo calls are made in this order in one turn
\* of the test; each reaches performAs after some microtask turns.  The wait
\* registers its listener in the test process; the click is a request to the
\* browser, and whatever the browser sends back (the event the click causes,
\* the reply to the click) is delivered to the test as a task of its own,
\* which runs only when no microtask is left.

\* The cases of the switch of waitForEvent (events of the browser context).
ContextEvents ==
  {"backgroundpage", "close", "console", "dialog", "page", "request",
   "requestfailed", "requestfinished", "response", "serviceworker",
   "weberror"}

\* The cases of the switch of waitForEventOnPage.
PageEvents ==
  {"close", "console", "crash", "dialog", "domcontentloaded", "download",
   "filechooser", "frameattached", "framedetached", "framenavigated", "load",
   "pageerror", "popup", "request", "requestfailed", "requestfinished",
   "response", "websocket", "worker"}

\* The events the tests wait for.
EventNames == {"page", "download", "dialog", "popup"}

Modes == {"event", "eventOnPage"}

\* The event has a case in the switch of the method the mode selects.
Supported(mode, event) ==
  IF mode = "event" THEN event \in ContextEvents ELSE event \in PageEvents

\* The emitter the method of the mode listens on.
Scope(mode) == IF mode = "event" THEN "context" ELSE "page"

\* The microtask at the head of the queue belongs to task t and has no turn
\* left to take before it acts.
AtHead(t) ==
  /\ micro # << >>
  /\ Head(micro).task = t
  /\ Head(micro).hops = 0

\* await Promise.all([actor.attemptsTo(Wait.forEvent(e)),
\*                    actor.attemptsTo(Click.on(l))])
PromiseAll ==
  /\ test = NoTest
  /\ \E m \in Modes, e \in EventNames, hw \in 0..MaxHops, hc \in 0..MaxHops :
       /\ test' = [mode |-> m, event |-> e, waitHops |-> hw, clickHops |-> hc]
       /\ micro' = <<[task |-> "wait", hops |-> hw, step |-> 1],
                     [task |-> "click", hops |-> hc, step |-> 1]>>
  /\ UNCHANGED <<browser, wire, listener, waitResult, clickResult, missed>>
  /\ UNCHANGED exceptEvent

\* attemptsTo takes one more microtask turn on its way to performAs.
Hop ==
  /\ micro # << >>
  /\ Head(micro).hops > 0
  /\ micro' = Append(Tail(micro), [Head(micro) EXCEPT !.hops = @ - 1])
  /\ UNCHANGED <<test, browser, wire, listener, waitResult, clickResult, missed>>
  /\ UNCHANGED exceptEvent

\* A wait that asks the browser something first and registers its listener
\* only when the reply has come.
waitForEvent_AfterRoundTrip ==
  /\ AtHead("wait")
  /\ micro' = Tail(micro)
  /\ IF ~Supported(test.mode, test.event)
     THEN waitResult' = "error" /\ UNCHANGED <<listener, browser>>
     ELSE IF Head(micro).step = 1
     THEN /\ browser' = Append(browser, [req |-> "sync", from |-> "wait"])
          /\ UNCHANGED <<listener, waitResult>>
     ELSE /\ listener' = [scope |-> Scope(test.mode), event |-> test.event]
          /\ UNCHANGED <<browser, waitResult>>
  /\ UNCHANGED <<test, wire, clickResult, missed>>
  /\ UNCHANGED exceptEvent

\* Wait.performAs calls waitForEvent or waitForEventOnPage, which calls
\* waitForEvent of the context or of the page in the same turn: the listener
\* is registered.  An event without a case in the switch throws.
waitForEvent ==
  /\ AtHead("wait")
  /\ micro' = Tail(micro)
  /\ IF Supported(test.mode, test.event)
     THEN /\ listener' = [scope |-> Scope(test.mode), event |-> test.event]
          /\ UNCHANGED waitResult
     ELSE /\ waitResult' = "error"
          /\ UNCHANGED listener
  /\ UNCHANGED <<test, browser, wire, clickResult, missed>>
  /\ UNCHANGED exceptEvent

\* Click.performAs calls click(locator): locator.click() is sent to the
\* browser; when the reply has come the promise of the click resolves.
clickLocator ==
  /\ AtHead("click")
  /\ micro' = Tail(micro)
  /\ IF Head(micro).step = 1
     THEN /\ browser' = Append(browser, [req |-> "click", from |-> "click"])
          /\ UNCHANGED clickResult
     ELSE /\ clickResult' = "done"
          /\ UNCHANGED browser
  /\ UNCHANGED <<test, wire, listener, waitResult, missed>>
  /\ UNCHANGED exceptEvent

\* The browser handles its next request and replies; a click makes the page
\* emit the event the test is about, before or after the reply.
BrowserActs ==
  /\ browser # << >>
  /\ browser' = Tail(browser)
  /\ LET r == Head(browser)
         reply == [kind |-> "reply", to |-> r.from,
                   scope |-> "none", event |-> "none"]
         event == [kind |-> "event", to |-> "none",
                   scope |-> Scope(test.mode), event |-> test.event]
     IN IF r.req = "click"
        THEN \/ wire' = wire \o <<event, reply>>
             \/ wire' = wire \o <<reply, event>>
        ELSE wire' = Append(wire, reply)
  /\ UNCHANGED <<test, micro, listener, waitResult, clickResult, missed>>
  /\ UNCHANGED exceptEvent

\* With no microtask left the test process takes the next message of the
\* browser: an event goes to the listener registered for it, if there is
\* one, and is dropped otherwise; a reply resumes the call it answers.
Deliver ==
  /\ micro = << >>
  /\ wire # << >>
  /\ wire' = Tail(wire)
  /\ LET msg == Head(wire)
     IN IF msg.kind = "event"
        THEN /\ IF listener = [scope |-> msg.scope, event |-> msg.event]
                THEN /\ waitResult' = "event"
                     /\ listener' = NoListener
                     /\ UNCHANGED missed
                ELSE /\ missed' = TRUE
                     /\ UNCHANGED <<listener, waitResult>>
             /\ UNCHANGED micro
        ELSE /\ micro' = <<[task |-> msg.to, hops |-> 0, step |-> 2]>>
             /\ UNCHANGED <<listener, waitResult, missed>>
  /\ UNCHANGED <<test, browser, clickResult>>
  /\ UNCHANGED exceptEvent

\* Nothing is left to run.
Quiet == micro = << >> /\ browser = << >> /\ wire = << >>

\* Promise.all has settled and the test goes on.
TestDone ==
  /\ test # NoTest
  /\ Quiet
  /\ test' = NoTest
  /\ listener' = NoListener
  /\ waitResult' = "pending"
  /\ clickResult' = "pending"
  /\ missed' = FALSE
  /\ UNCHANGED <<micro, browser, wire>>
  /\ UNCHANGED exceptEvent

EventNext ==
  \/ PromiseAll
  \/ Hop
  \/ waitForEvent
  \/ clickLocator
  \/ BrowserActs
  \/ Deliver
  \/ TestDone

EventInit == Init /\ doc = Shown

EventSpec == EventInit /\ [][EventNext]_vars

\* ---------------------------------------------------------------- the pages
\* The ability keeps one page, this.page.  bringToFront(page) replaces it and
\* activates the page in the browser; the page-level methods work on
\* this.page, checkPageUrl on its page argument when it is given one.

\* The address each page shows.
Url ==
  [p \in Pages |->
     CASE p = "page"    -> "/windows"
       [] p = "newPage" -> "/windows/new"
       [] OTHER         -> "/other"]

Urls == {Url[p] : p \in Pages}

\* The optional page argument.
PageOptions == Pages \cup {"undefined"}

\* A bringToFront that activates the page without keeping it.
bringToFront_FrontOnly ==
  \E p \in Pages :
    /\ front' = p
    /\ brought' = [now |-> p, before |-> brought.now]
    /\ used' = NoUse
    /\ UNCHANGED page
    /\ UNCHANGED exceptPage

\* BrowseTheWeb.bringToFront(page): this.page = page;
\* return this.page.bringToFront()
bringToFront ==
  \E p \in Pages :
    /\ page' = p
    /\ front' = p
    /\ brought' = [now |-> p, before |-> brought.now]
    /\ used' = NoUse
    /\ UNCHANGED exceptPage

\* BrowseTheWeb.bringToFront(page) when the page's own bringToFront rejects
\* (the page was closed, say): this.page has been assigned, the browser
\* shows what it showed, and the rejection goes to the caller.
bringToFrontRejects ==
  \E p \in Pages :
    /\ page' = p
    /\ brought' = [now |-> p, before |-> brought.now]
    /\ used' = [call |-> "bringToFront", on |-> p, explicit |-> TRUE,
                result |-> "throws"]
    /\ UNCHANGED front
    /\ UNCHANGED exceptPage

\* BrowseTheWeb.waitForLoadState(status, options):
\* this.page.waitForLoadState(status, options)
waitForLoadState ==
  /\ used' = [call |-> "waitForLoadState", on |-> page, explicit |-> FALSE,
              result |-> "void"]
  /\ UNCHANGED <<page, front, brought>>
  /\ UNCHANGED exceptPage

\* BrowseTheWeb.checkPageUrl(positive, expectedUrl, options, page):
\* the assertion runs on page ?? this.page.
checkPageUrl ==
  /\ \E positive \in BOOLEAN, expectedUrl \in Urls, arg \in PageOptions :
       LET pageToUse == IF arg = "undefined" THEN page ELSE arg
       IN used' = [call |-> "checkPageUrl", on |-> pageToUse,
                   explicit |-> (arg # "undefined"),
                   result |-> IF (Url[pageToUse] = expectedUrl) = positive
                              THEN "true" ELSE "throws"]
  /\ UNCHANGED <<page, front, brought>>
  /\ UNCHANGED exceptPage

\* A click on a page opens another page, which the browser shows in front.
PageOpens ==
  /\ \E p \in Pages : p # front /\ front' = p
  /\ UNCHANGED <<page, brought, used>>
  /\ UNCHANGED exceptPage

PageNext ==
  \/ bringToFront
  \/ bringToFrontRejects
  \/ waitForLoadState
  \/ checkPageUrl
  \/ PageOpens

PageInit == Init /\ doc = Shown

PageSpec == PageInit /\ [][PageNext]_vars

\* ------------------------------------------------------------ the storages
\* set...StorageItem stores JSON.stringify(value) under the key, get...
\* reads the item and returns JSON.parse of it when it is truthy and
\* undefined otherwise, remove... removes the item; all three run in the
\* page (page.evaluate).

\* The values the tests and their variations store.
Values ==
  {String("localValue"), String(""), Number("0"), Number("NaN"), Null,
   Undefined}

\* JSON.stringify(v): a text, or undefined for undefined.
JSONstringify(v) ==
  CASE v.type = "string"    -> String("\"" \o v.val \o "\"")
    [] v.type = "number"    -> String(IF v.val = "NaN" THEN "null" ELSE v.val)
    [] v.type = "null"      -> String("null")
    [] v.type = "undefined" -> Undefined

\* The string setItem stores for its value argument x.
StoredText(x) == x.val

\* JSON.parse(text) of the texts a storage can hold.
JSONparse(text) ==
  CASE text = "\"localValue\"" -> String("localValue")
    [] text = "\"\""           -> String("")
    [] text = "0"              -> Number("0")
    [] text = "null"           -> Null
    [] OTHER                   -> Throws("SyntaxError")

\* A get that hands on the null of getItem for a missing item.
GetItem_NullForMissing(store, k) ==
  LET value == store[k]
  IN IF value # Absent /\ value # "" THEN JSONparse(value) ELSE Null

\* const value = storage.getItem(k); if (value) return JSON.parse(value);
\* return undefined
GetItem(store, k) ==
  LET value == store[k]
  IN IF value # Absent /\ value # "" THEN JSONparse(value) ELSE Undefined

\* storage.setItem(k, JSON.stringify(v))
SetItem(store, k, v) == [store EXCEPT ![k] = StoredText(JSONstringify(v))]

\* storage.removeItem(k)
RemoveItem(store, k) == [store EXCEPT ![k] = Absent]

setLocalStorageItem ==
  /\ \E k \in Keys, v \in Values :
       /\ localStorage' = SetItem(localStorage, k, v)
       /\ written' = [written EXCEPT !["localStorage"][k] = v]
  /\ got' = NoGet
  /\ UNCHANGED sessionStorage
  /\ UNCHANGED exceptStorage

getLocalStorageItem ==
  /\ \E k \in Keys :
       got' = [storage |-> "localStorage", key |-> k,
               was |-> written["localStorage"][k],
               result |-> GetItem(localStorage, k)]
  /\ UNCHANGED <<localStorage, sessionStorage, written>>
  /\ UNCHANGED exceptStorage

removeLocalStorageItem ==
  /\ \E k \in Keys :
       /\ localStorage' = RemoveItem(localStorage, k)
       /\ written' = [written EXCEPT !["localStorage"][k] = Removed]
  /\ got' = NoGet
  /\ UNCHANGED sessionStorage
  /\ UNCHANGED exceptStorage

setSessionStorageItem ==
  /\ \E k \in Keys, v \in Values :
       /\ sessionStorage' = SetItem(sessionStorage, k, v)
       /\ written' = [written EXCEPT !["sessionStorage"][k] = v]
  /\ got' = NoGet
  /\ UNCHANGED localStorage
  /\ UNCHANGED exceptStorage

getSessionStorageItem ==
  /\ \E k \in Keys :
       got' = [storage |-> "sessionStorage", key |-> k,
               was |-> written["sessionStorage"][k],
               result |-> GetItem(sessionStorage, k)]
  /\ UNCHANGED <<localStorage, sessionStorage, written>>
  /\ UNCHANGED exceptStorage

removeSessionStorageItem ==
  /\ \E k \in Keys :
       /\ sessionStorage' = RemoveItem(sessionStorage, k)
       /\ written' = [written EXCEPT !["sessionStorage"][k] = Removed]
  /\ got' = NoGet
  /\ UNCHANGED localStorage
  /\ UNCHANGED exceptStorage

StorageNext ==
  \/ setLocalStorageItem
  \/ getLocalStorageItem
  \/ removeLocalStorageItem
  \/ setSessionStorageItem
  \/ getSessionStorageItem
  \/ removeSessionStorageItem

StorageInit == Init /\ doc = Shown

StorageSpec == StorageInit /\ [][StorageNext]_vars

\* ------------------------------------------------------------ the questions
\* An Element or Screen instance keeps four fields: positive, mode, payload
\* and options.  `.not` and the mode operators assign them and return the
\* instance; answeredBy reads them and calls one check method of the ability.

\* Most operators called on one instance that are counted.
MaxChain == 2

\* The values a payload takes besides strings and numbers.
RegExp(text) == [type |-> "RegExp", val |-> text]

ArrayOf(items) == [type |-> "array", val |-> items]

Style(name, value) == [type |-> "object", val |-> name \o ": " \o value]

\* types.ts: the schemas of the payloads.
isTextPayload(value) ==
  \/ value.type \in {"string", "RegExp"}
  \/ value.type = "array" /\ value.val \in {"string[]", "(string | RegExp)[]"}

isValuePayload(value) == value.type \in {"string", "RegExp"}

\* z.number() does not take NaN for a number.
isCountPayload(value) == value.type = "number" /\ value.val # "NaN"

isStylePayload(value) == value.type = "object"

\* A screenshot schema that takes one name only.
isScreenshotPayload_StringOnly(value) == value.type = "string"

isScreenshotPayload(value) ==
  \/ value.type = "string"
  \/ value.type = "array" /\ value.val = "string[]"

isUrlPayload(value) == isValuePayload(value)

isTitlePayload(value) == isValuePayload(value)

\* The arguments the tests and their variations pass to the operators.
TextPayloads == {String("Conway"), ArrayOf("(string | RegExp)[]")}

ValuePayloads == {RegExp("Con")}

CountPayloads == {Number("1"), Number("NaN")}

StylePayloads == {Style("display", "block")}

ScreenshotPayloads == {ArrayOf("string[]")}

\* The options of an operator: none, a timeout, or the flag of visible() and
\* enabled() (options.visible, options.enabled) set to false.
TimeoutOptions == {NoOptions, [timeout |-> "1000", flag |-> "undefined"]}

StateOptionsOf == TimeoutOptions \cup {[timeout |-> "undefined", flag |-> "false"]}

\* The mode operators of Element without payload, and those with one.
StateModes ==
  {"visible", "enabled", "editable", "checked", "focused", "inViewport"}

PayloadsOf(mode) ==
  CASE mode \in {"haveText", "containText"} -> TextPayloads
    [] mode = "haveValue"      -> ValuePayloads
    [] mode = "haveCount"      -> CountPayloads
    [] mode = "haveCSS"        -> StylePayloads
    [] mode = "haveScreenshot" -> ScreenshotPayloads
    [] mode = "haveUrl"        -> {String(u) : u \in Urls}
    [] mode = "haveTitle"      -> {String("The Internet")}

PayloadModes ==
  {"haveText", "containText", "haveValue", "haveCount", "haveCSS",
   "haveScreenshot"}

ScreenModes == {"haveUrl", "haveTitle", "haveScreenshot"}

\* The locators the questions are asked of: the rows (two, or one when the
\* second is removed) and the cell with the text Conway (one, or none).
Locators ==
  {<<[sel |-> "tr", hasText |-> "none"]>>,
   <<[sel |-> "td", hasText |-> "Conway"]>>}

\* The elements with the attribute `disabled`.
Disabled == {"tr1"}

\* The title each page shows.
Title ==
  [p \in Pages |->
     CASE p = "page"    -> "The Internet"
       [] p = "newPage" -> "New Window"
       [] OTHER         -> "Other"]

\* An assertion that tells its failure by the value false.
Expect_ResolvesFalse(n, sat) ==
  IF n = 1 /\ sat THEN "true" ELSE "false"

\* A retrying assertion on a Locator against a page that does not change: a
\* Locator that matches several elements fails it, otherwise it passes when
\* the state holds and fails at its timeout when it does not.
Expect(n, sat) ==
  IF n > 1 THEN "throws"
  ELSE IF sat THEN "true"
  ELSE "throws"

\* expect(locator).toBeHidden(options) taking an absent element for not
\* hidden.
toBeHidden_AttachedOnly(d, m) ==
  Expect(Cardinality(m), m # {} /\ \A e \in m : ~IsVisible(d, e))

\* expect(locator).toBeHidden(options): no element, or an invisible one.
toBeHidden(d, m) ==
  Expect(Cardinality(m), \A e \in m : ~IsVisible(d, e))

\* expect(locator).toBeVisible(options); options.visible = false asks for
\* the opposite.
toBeVisible(d, m, options) ==
  IF options.flag = "false"
  THEN toBeHidden(d, m)
  ELSE Expect(Cardinality(m), \E e \in m : IsVisible(d, e))

\* expect(locator).toBeDisabled(options)
toBeDisabled(d, m) ==
  Expect(Cardinality(m), \E e \in m : e \in Disabled)

\* expect(locator).toBeEnabled(options); options.enabled = false asks for
\* the opposite.
toBeEnabled(d, m, options) ==
  IF options.flag = "false"
  THEN toBeDisabled(d, m)
  ELSE Expect(Cardinality(m), \E e \in m : e \notin Disabled)

\* BrowseTheWeb.checkVisibilityState(locator, positive, options) of the
\* Locator-based ability: the negative branch passes the timeout only.
checkLocatorVisibilityState(d, locator, positive, options) ==
  IF positive
  THEN toBeVisible(d, Lookup(d, locator), options)
  ELSE toBeHidden(d, Lookup(d, locator))

\* BrowseTheWeb.checkEnabledState(locator, positive, options)
checkEnabledState(d, locator, positive, options) ==
  IF positive
  THEN toBeEnabled(d, Lookup(d, locator), options)
  ELSE toBeDisabled(d, Lookup(d, locator))

\* What a check method whose page facts are not modelled comes to: it
\* resolves to true or its assertion throws.
Outcomes == {"true", "throws"}

Checked(q, check, payload, on, results) ==
  {[check |-> check, positive |-> q.positive, payload |-> payload,
    options |-> q.options, on |-> on, result |-> r] : r \in results}

Thrown(q, message) ==
  {[check |-> "none", positive |-> q.positive, payload |-> q.payload,
    options |-> q.options, on |-> "none", result |-> message]}

\* The payload check of a mode that has one, and the check method behind
\* the mode.
Guard(mode, payload) ==
  CASE mode \in {"haveText", "containText"} -> isTextPayload(payload)
    [] mode = "haveValue"      -> isValuePayload(payload)
    [] mode = "haveCount"      -> isCountPayload(payload)
    [] mode = "haveCSS"        -> isStylePayload(payload)
    [] mode = "haveScreenshot" -> isScreenshotPayload(payload)
    [] mode = "haveUrl"        -> isUrlPayload(payload)
    [] mode = "haveTitle"      -> isTitlePayload(payload)
    [] OTHER                   -> TRUE

CheckOf(mode) ==
  CASE mode = "visible"        -> "checkVisibilityState"
    [] mode = "enabled"        -> "checkEnabledState"
    [] mode = "editable"       -> "checkEditableState"
    [] mode = "checked"        -> "checkCheckedState"
    [] mode = "focused"        -> "checkFocusedState"
    [] mode = "inViewport"     -> "checkLocatorInViewportState"
    [] mode = "haveText"       -> "checkLocatorHasText"
    [] mode = "containText"    -> "checkLocatorContainsText"
    [] mode = "haveValue"      -> "checkLocatorHasValue"
    [] mode = "haveCount"      -> "checkLocatorHasCount"
    [] mode = "haveCSS"        -> "checkLocatorHasCSS"
    [] mode = "haveScreenshot" -> "checkLocatorHasScreenshot"
    [] OTHER                   -> "none"

\* Element.answeredBy: the answers it can give for the instance q on the
\* document d.
ElementAnswers(d, q) ==
  CASE q.mode = "visible" ->
         Checked(q, CheckOf(q.mode), String(""), "locator",
                 {checkLocatorVisibilityState(d, q.locator, q.positive,
                                              q.options)})
    [] q.mode = "enabled" ->
         Checked(q, CheckOf(q.mode), String(""), "locator",
                 {checkEnabledState(d, q.locator, q.positive, q.options)})
    [] q.mode \in StateModes \ {"visible", "enabled"} ->
         Checked(q, CheckOf(q.mode), String(""), "locator", Outcomes)
    [] q.mode \in PayloadModes ->
         IF Guard(q.mode, q.payload)
         THEN Checked(q, CheckOf(q.mode), q.payload, "locator", Outcomes)
         ELSE Thrown(q, "Element." \o q.mode \o ": incompatible payload.")
    [] OTHER -> Thrown(q, "Unknown mode: Element.answeredBy")

\* Screen.answeredBy: haveUrl and haveTitle pass this.page to the check
\* method, haveScreenshot does not; each check method works on
\* page ?? this.page, p being the ability's page.
ScreenAnswers(p, q) ==
  LET given     == IF q.page = "undefined" THEN p ELSE q.page
  IN CASE q.mode = "haveUrl" ->
            IF isUrlPayload(q.payload)
            THEN Checked(q, "checkPageUrl", q.payload, given,
                         {IF (String(Url[given]) = q.payload) = q.positive
                          THEN "true" ELSE "throws"})
            ELSE Thrown(q, "Screen.haveUrl: incompatible payload.")
       [] q.mode = "haveTitle" ->
            IF isTitlePayload(q.payload)
            THEN Checked(q, "checkPageTitle", q.payload, given,
                         {IF (String(Title[given]) = q.payload) = q.positive
                          THEN "true" ELSE "throws"})
            ELSE Thrown(q, "Screen.haveTitle: incompatible payload.")
       [] q.mode = "haveScreenshot" ->
            IF isScreenshotPayload(q.payload)
            THEN Checked(q, "checkPageScreenshot", q.payload, p, Outcomes)
            ELSE Thrown(q, "Screen.haveScreenshot: incompatible payload.")
       [] OTHER -> Thrown(q, "Unknown mode: Element.answeredBy")

\* Element.of(locator): new Element(locator)
ElementOf ==
  /\ question = NoQuestion
  /\ \E l \in Locators :
       question' = [kind |-> "Element", locator |-> l, page |-> "undefined",
                    positive |-> TRUE, mode |-> "visible",
                    payload |-> String(""), options |-> NoOptions]
  /\ UNCHANGED <<answer, chain>>
  /\ UNCHANGED <<resolverVars, exceptQuestion>>

\* Screen.of(page) and Screen.does: new Screen(page), new Screen()
ScreenOf ==
  /\ question = NoQuestion
  /\ \E p \in PageOptions :
       question' = [kind |-> "Screen", locator |-> EmptySelector, page |-> p,
                    positive |-> TRUE, mode |-> "haveUrl",
                    payload |-> String(""), options |-> NoOptions]
  /\ UNCHANGED <<answer, chain>>
  /\ UNCHANGED <<resolverVars, exceptQuestion>>

\* A `not` that toggles the flag.
not_Toggle ==
  /\ question.kind # "none"
  /\ answer = NoAnswer
  /\ chain.nots < MaxChain
  /\ question' = [question EXCEPT !.positive = ~question.positive]
  /\ chain' = [chain EXCEPT !.nots = chain.nots + 1]
  /\ UNCHANGED answer
  /\ UNCHANGED <<resolverVars, exceptQuestion>>

\* get not(): this.positive = false; return this
not ==
  /\ question.kind # "none"
  /\ answer = NoAnswer
  /\ chain.nots < MaxChain
  /\ question' = [question EXCEPT !.positive = FALSE]
  /\ chain' = [chain EXCEPT !.nots = chain.nots + 1]
  /\ UNCHANGED answer
  /\ UNCHANGED <<resolverVars, exceptQuestion>>

\* A mode operator that keeps the payload of the first operator called.
Operator_KeepFirst(kind, mode, payload, options) ==
  /\ question.kind = kind
  /\ answer = NoAnswer
  /\ chain.modes < MaxChain
  /\ question' = [question EXCEPT
                    !.mode = mode,
                    !.payload = IF chain.modes = 0 THEN payload ELSE @,
                    !.options = options]
  /\ chain' = [chain EXCEPT
                 !.last = [op |-> mode, payload |-> payload,
                           options |-> options],
                 !.modes = chain.modes + 1]
  /\ UNCHANGED answer
  /\ UNCHANGED <<resolverVars, exceptQuestion>>

\* A mode operator: this.mode = mode; this.payload = payload (when it takes
\* one); this.options = options; return this
Operator(kind, mode, payload, options) ==
  /\ question.kind = kind
  /\ answer = NoAnswer
  /\ chain.modes < MaxChain
  /\ question' = [question EXCEPT
                    !.mode = mode, !.payload = payload, !.options = options]
  /\ chain' = [chain EXCEPT
                 !.last = [op |-> mode, payload |-> payload,
                           options |-> options],
                 !.modes = chain.modes + 1]
  /\ UNCHANGED answer
  /\ UNCHANGED <<resolverVars, exceptQuestion>>

\* The operator of a mode without payload: the payload field stays.
StateOperator(mode, options) ==
  Operator("Element", mode, question.payload, options)

visible == \E o \in StateOptionsOf : StateOperator("visible", o)

enabled == \E o \in StateOptionsOf : StateOperator("enabled", o)

editable == \E o \in TimeoutOptions : StateOperator("editable", o)

checked == \E o \in TimeoutOptions : StateOperator("checked", o)

focused == \E o \in TimeoutOptions : StateOperator("focused", o)

inViewport == \E o \in TimeoutOptions : StateOperator("inViewport", o)

PayloadOperator(kind, mode) ==
  \E p \in PayloadsOf(mode), o \in TimeoutOptions : Operator(kind, mode, p, o)

haveText == PayloadOperator("Element", "haveText")

containText == PayloadOperator("Element", "containText")

haveValue == PayloadOperator("Element", "haveValue")

haveCount == PayloadOperator("Element", "haveCount")

haveCSS == PayloadOperator("Element", "haveCSS")

haveScreenshot ==
  \E k \in {"Element", "Screen"} : PayloadOperator(k, "haveScreenshot")

haveUrl == PayloadOperator("Screen", "haveUrl")

haveTitle == PayloadOperator("Screen", "haveTitle")

\* actor.asks(question): answeredBy(actor)
answeredBy ==
  /\ question.kind # "none"
  /\ answer = NoAnswer
  /\ answer' \in IF question.kind = "Element"
                 THEN ElementAnswers(doc, question)
                 ELSE ScreenAnswers(page, question)
  /\ UNCHANGED <<question, chain>>
  /\ UNCHANGED <<resolverVars, exceptQuestion>>

\* The test is over with its question.
Discard ==
  /\ answer # NoAnswer
  /\ question' = NoQuestion
  /\ answer' = NoAnswer
  /\ chain' = NoChain
  /\ UNCHANGED <<resolverVars, exceptQuestion>>

QuestionNext ==
  \/ ElementOf
  \/ ScreenOf
  \/ not
  \/ visible
  \/ enabled
  \/ editable
  \/ checked
  \/ focused
  \/ inViewport
  \/ haveText
  \/ containText
  \/ haveValue
  \/ haveCount
  \/ haveCSS
  \/ haveScreenshot
  \/ haveUrl
  \/ haveTitle
  \/ answeredBy
  \/ Discard

QuestionSpec == Init /\ [][QuestionNext]_vars

\* ---------------------------------------------------------- the API requests
\* A request Action is built with from(url) or to(url), takes headers, a
\* response body format and data, and hands all of it to
\* UseAPI.sendRequest in performAs.

RequestTypes == {"Get", "Head", "Delete", "Post", "Put", "Patch"}

ApiUrls == {"/items", "/items/1"}

\* The headers of a new request and those a test adds.
DefaultHeaders == "ARequest.headers"

GivenHeaders == "{ authorization }"

\* The method each class passes to sendRequest.
RequestMethodOf(type) ==
  CASE type = "Get"    -> "GET"
    [] type = "Head"   -> "GET"
    [] type = "Delete" -> "DELETE"
    [] type = "Post"   -> "POST"
    [] type = "Put"    -> "PUT"
    [] type = "Patch"  -> "PATCH"

NewRequest(type, url) ==
  /\ request = NoRequest
  /\ request' = [type |-> type, url |-> url, headers |-> DefaultHeaders,
                 responseBodyFormat |->
                   IF type = "Head" THEN "none" ELSE "json",
                 data |-> "undefined"]
  /\ UNCHANGED sent
  /\ UNCHANGED <<resolverVars, exceptApi>>

\* Get.from(url), Head.from(url), Delete.from(url)
from ==
  \E type \in {"Get", "Head", "Delete"}, url \in ApiUrls :
    NewRequest(type, url)

\* Post.to(url), Put.to(url), Patch.to(url)
to ==
  \E type \in {"Post", "Put", "Patch"}, url \in ApiUrls :
    NewRequest(type, url)

\* withHeaders(headers): this.headers = headers; return this
withHeaders ==
  /\ request # NoRequest
  /\ sent = NoSent
  /\ request' = [request EXCEPT !.headers = GivenHeaders]
  /\ UNCHANGED sent
  /\ UNCHANGED <<resolverVars, exceptApi>>

\* withResponseBodyFormat(format); Head has no such method.
withResponseBodyFormat ==
  /\ request.type \in RequestTypes \ {"Head"}
  /\ sent = NoSent
  /\ \E f \in {"json", "text", "none"} :
       request' = [request EXCEPT !.responseBodyFormat = f]
  /\ UNCHANGED sent
  /\ UNCHANGED <<resolverVars, exceptApi>>

\* withData(data) of Post, Put and Patch
withData ==
  /\ request.type \in {"Post", "Put", "Patch"}
  /\ sent = NoSent
  /\ request' = [request EXCEPT !.data = "{ item }"]
  /\ UNCHANGED sent
  /\ UNCHANGED <<resolverVars, exceptApi>>

\* performAs(actor): UseAPI.as(actor).sendRequest(method, this.url,
\* this.headers, this.responseBodyFormat, this.data)
sendRequest ==
  /\ request # NoRequest
  /\ sent = NoSent
  /\ sent' = [method |-> RequestMethodOf(request.type), url |-> request.url,
              headers |-> request.headers,
              responseBodyFormat |-> request.responseBodyFormat,
              data |-> request.data]
  /\ UNCHANGED request
  /\ UNCHANGED <<resolverVars, exceptApi>>

\* The response is back; the test goes on to its next request.
RequestDone ==
  /\ sent # NoSent
  /\ request' = NoRequest
  /\ sent' = NoSent
  /\ UNCHANGED <<resolverVars, exceptApi>>

ApiNext ==
  \/ from
  \/ to
  \/ withHeaders
  \/ withResponseBodyFormat
  \/ withData
  \/ sendRequest
  \/ RequestDone

ApiInit == Init /\ doc = Shown

ApiSpec == ApiInit /\ [][ApiNext]_vars

\* ------------------------------------------------- the context configuration
\* Configure.geolocation(g) and Configure.network(n) build an instance that
\* keeps its mode and its option; performAs hands the option to the
\* ability's setGeolocation or setOffline.

\* A position.
Geolocation(where) == [type |-> "Geolocation", val |-> where]

\* The arguments of Configure.geolocation: positions, null, and undefined.
Geolocations ==
  {Geolocation("59.95, 30.31667"), Geolocation("52.52, 13.405"),
   Geolocation("35.68, 139.69"), Null, Undefined}

Networks == {"online", "offline"}

\* Configure.geolocation(geolocation):
\* new Configure("geolocation", { geolocation })
geolocation ==
  /\ configure = NoConfigure
  /\ \E g \in Geolocations :
       configure' = [mode |-> "geolocation", geolocation |-> g,
                     network |-> "undefined"]
  /\ context' = [context EXCEPT !.call = "none", !.result = "none"]
  /\ UNCHANGED <<resolverVars, exceptContext>>

\* Configure.network(network): new Configure("network", { network })
network ==
  /\ configure = NoConfigure
  /\ \E n \in Networks :
       configure' = [mode |-> "network", geolocation |-> Undefined,
                     network |-> n]
  /\ context' = [context EXCEPT !.call = "none", !.result = "none"]
  /\ UNCHANGED <<resolverVars, exceptContext>>

\* Configure.performAs(actor)
configurePerformAs ==
  /\ configure # NoConfigure
  /\ context.result = "none"
  /\ context' =
       IF configure.mode = "geolocation" /\ configure.geolocation # Undefined
       THEN [context EXCEPT !.geolocation = configure.geolocation,
                            !.call = "setGeolocation", !.result = "void"]
       ELSE IF configure.mode = "network" /\ configure.network # "undefined"
       THEN [context EXCEPT !.offline = (configure.network = "offline"),
                            !.call = "setOffline", !.result = "void"]
       ELSE [context EXCEPT
               !.result = "Error: no match for Configure.performAs()"]
  /\ UNCHANGED configure
  /\ UNCHANGED <<resolverVars, exceptContext>>

\* The Action is over; the context keeps what was set.
ConfigureDone ==
  /\ context.result # "none"
  /\ configure' = NoConfigure
  /\ UNCHANGED context
  /\ UNCHANGED <<resolverVars, exceptContext>>

ContextNext ==
  \/ geolocation
  \/ network
  \/ configurePerformAs
  \/ ConfigureDone

ContextInit == Init /\ doc = Shown

ContextSpec == ContextInit /\ [][ContextNext]_vars

\* ------------------------------------------------------------------ claims
\* The number of levels of the selector of the call in progress.
Levels == Len(req.sel)

\* C1: whenever the lookup returns a locator for a request with state S, the
\* element the locator refers to satisfies S at the moment of return:
\* attached and visible handles refer to an element that is attached, resp.
\* visible; a detached handle refers to nothing in the DOM; a hidden handle
\* refers to no visible element.
C1_ReturnedHandleSatisfiesState ==
  pc = "returned" =>
    /\ req.state = "attached" => handle # {} /\ \A e \in handle : IsAttached(doc, e)
    /\ req.state = "detached" => handle = {}
    /\ req.state = "visible"  => handle # {} /\ \A e \in handle : IsVisible(doc, e)
    /\ req.state = "hidden"   => \A e \in handle : ~IsVisible(doc, e)

\* C1 witness: a visible element is returned after the call had to wait.
C1_Witness ==
  pc = "returned" /\ req.state = "visible" /\ evals >= 2 /\ handle # {}

\* C2 as stated: with timeout 0 the state is evaluated exactly once and the
\* call fails at once when that evaluation is not satisfied; it never yields.
C2_Original ==
  (pc # "idle" /\ req.timeout = 0) => (evals <= 1 /\ pc # "waiting")

\* C2 amended: a timeout of 0 disables the deadline; the call polls until
\* the state is satisfied and never fails with the timeout error.
C2_ZeroTimeoutNeverExpires ==
  (pc # "idle" /\ req.timeout = 0) => err # "ResolutionTimeoutError"

\* C2 witness: a call with timeout 0 returns after several evaluations.
C2_Witness ==
  pc = "returned" /\ req.timeout = 0 /\ evals >= 2 /\ elapsed >= 1

\* C3 as stated: for every timeout T the call never retries past the
\* deadline and a timeout failure comes before T plus one polling quantum.
C3_Original ==
  /\ pc = "waiting" => elapsed < req.timeout
  /\ err = "ResolutionTimeoutError" => elapsed < req.timeout + Quantum

\* C3 amended: for every timeout T > 0 the call never retries past the
\* deadline and a timeout failure comes before T plus one polling quantum.
C3_DeadlineBound ==
  req.timeout > 0 =>
    /\ pc = "waiting" => elapsed < req.timeout
    /\ pc = "eval" => elapsed < req.timeout + Quantum
    /\ err = "ResolutionTimeoutError" =>
         (elapsed >= req.timeout /\ elapsed < req.timeout + Quantum)

\* C3 witness: a call fails by timeout after its deadline, within a quantum.
C3_Witness ==
  pc = "failed" /\ err = "ResolutionTimeoutError" /\ elapsed > req.timeout

\* C4 as stated: with zero matches only detached is satisfied; attached,
\* visible and hidden fail, and they fail with the timeout error.
C4_Original ==
  (pc \in {"returned", "failed"} /\ Lookup(doc, req.sel) = {}) =>
    IF req.state = "detached"
      THEN pc = "returned"
      ELSE pc = "failed" /\ err = "ResolutionTimeoutError"

\* C4 amended: with zero matches detached and hidden are satisfied; attached
\* and visible are not, and they fail with the timeout error, the same as an
\* element found in the wrong state.
C4_ZeroMatches ==
  (pc \in {"returned", "failed"} /\ Lookup(doc, req.sel) = {}) =>
    IF req.state \in {"detached", "hidden"}
      THEN pc = "returned"
      ELSE pc = "failed" /\ err = "ResolutionTimeoutError"

\* C4 witness: a request for a visible element fails on zero matches.
C4_Witness ==
  /\ pc = "failed" /\ req.state = "visible"
  /\ Lookup(doc, req.sel) = {} /\ err = "ResolutionTimeoutError"

\* C5: a click whose selector still matches several elements after all
\* narrowing fails with AmbiguousMatchError; no returned locator refers to
\* more than one element.
C5_AmbiguousFails ==
  req.op = "click" =>
    /\ pc = "returned" => Cardinality(handle) <= 1
    /\ (pc \in {"returned", "failed"} /\ Cardinality(Lookup(doc, req.sel)) > 1) =>
         (pc = "failed" /\ err = "AmbiguousMatchError")

\* C5 witness: a click on a selector with two matches has failed.
C5_Witness ==
  /\ req.op = "click" /\ pc = "failed" /\ err = "AmbiguousMatchError"
  /\ Cardinality(Lookup(doc, req.sel)) = 2

\* Element e matches one level of a selector in document d.
MatchesLevel(d, e, l) ==
  /\ IsAttached(d, e)
  /\ Tag[e] = l.sel
  /\ l.hasText = "none" \/ l.hasText \in TextContent(d, e)

\* Element e matches the last level of s and lies inside an element that
\* matches, in the same way, the levels before it.
RECURSIVE InChain(_, _, _)
InChain(d, e, s) ==
  /\ MatchesLevel(d, e, s[Len(s)])
  /\ Len(s) = 1 \/ \E a \in Ancestors(e) : InChain(d, a, SubSeq(s, 1, Len(s) - 1))

\* C6 as stated: for a selector with a sub-selector the returned locator
\* refers to the element matched by the parent selector (the row), never
\* to an element matched by the sub-selector (the cell).
C6_Original ==
  (pc = "returned" /\ Levels >= 2) =>
    \A e \in handle : Tag[e] = req.sel[1].sel

\* C6 amended: for a selector with a sub-selector the returned locator
\* refers to the element matched by the sub-selector (the cell) inside an
\* element matched by its parent selector (the row), never to the parent.
C6_HandleIsSubMatch ==
  (pc = "returned" /\ Levels >= 2) =>
    \A e \in handle :
      /\ MatchesLevel(doc, e, req.sel[Levels])
      /\ \E a \in Ancestors(e) : MatchesLevel(doc, a, req.sel[Levels - 1])
      /\ ~MatchesLevel(doc, e, req.sel[1])

\* C6 witness: row with text Conway, sub-selector cell: the cell is returned.
C6_Witness ==
  /\ pc = "returned" /\ Levels = 2 /\ handle = {"td1"}
  /\ req.sel[1] = [sel |-> "tr", hasText |-> "Conway"]
  /\ req.sel[2].sel = "td"

\* C7 as stated: removing the sub-selector of a selector with one
\* sub-selector yields a superset of the original match set.
C7_Original ==
  (pc # "idle" /\ Levels = 2) =>
    Lookup(doc, req.sel) \subseteq Lookup(doc, <<req.sel[1]>>)

\* C7 amended: removing the sub-selector of a selector with one
\* sub-selector yields the parent matches, and every element of the
\* original match set lies inside one of them.
C7_MatchesInsideParentMatches ==
  (pc # "idle" /\ Levels = 2) =>
    \A e \in Lookup(doc, req.sel) :
      Ancestors(e) \cap Lookup(doc, <<req.sel[1]>>) # {}

\* C7 witness: a sub-selector narrowed inside a parent that a hasText
\* narrows: one row of two matches, one cell of two lies inside it.
C7_Witness ==
  /\ pc # "idle" /\ Levels = 2
  /\ Lookup(doc, req.sel) = {"td1"}
  /\ Lookup(doc, <<req.sel[1]>>) = {"tr1"}
  /\ IsAttached(doc, "td2")

\* C8: for a selector without subSelector the lookup gives exactly the
\* direct match of the selector string narrowed by the optional hasText.
C8_NoSubSelectorIsDirectMatch ==
  (pc = "returned" /\ Levels = 1) =>
    handle = {e \in Elements : MatchesLevel(doc, e, req.sel[1])}

\* C8 witness: a row found by the text of its cell, without subSelector.
C8_Witness ==
  /\ pc = "returned" /\ Levels = 1 /\ handle = {"tr1"}
  /\ req.sel[1].hasText = "Conway"

C10_Original ==
  pc = "returned" => Levels <= 2

\* C10 amended: the options of a sub-selector carry a further sub-selector,
\* and such a selector is resolved: the returned locator refers to the
\* innermost match inside the matches of every enclosing level.
C10_NestedSubSelectorResolved ==
  (pc = "returned" /\ Levels >= 3) =>
    /\ \A e \in handle : InChain(doc, e, req.sel)
    /\ \A e \in Elements : InChain(doc, e, req.sel) => e \in handle

\* C10 witness: the selector of the "Wait + Recursive Locators" test, table
\* >> row with text Conway >> cell, resolved to the cell.
C10_Witness ==
  /\ pc = "returned" /\ Levels = 3 /\ handle = {"td1"}
  /\ req.sel[2] = [sel |-> "tr", hasText |-> "Conway"]

\* C11 as stated: a selector with an empty base never gets into an Action
\* instance (its construction fails with a ValidationError) and never
\* reaches recursiveLocatorLookup.
C11_Original ==
  /\ stage # "idle" => action.selector # EmptySelector
  /\ stage = "lookup" => CurrentSelector(action, lookups) # EmptySelector

\* C11 (as amended): construction validates nothing.  Every factory call
\* yields an instance holding exactly the selector it was given, the empty
\* one included; nothing is rejected before performAs calls the ability.
C11_ConstructionNeverFails ==
  stage # "idle" =>
    /\ action # NoAction
    /\ action.type \in {"Press", "Click", "Fill", "DragAndDrop"}
    /\ action.selector \in ActionSelectors

\* C11 witness: recursiveLocatorLookup has been called with the empty
\* selector of a Press.characters("", ...) instance.
C11_Witness ==
  /\ stage = "lookup"
  /\ action.type = "Press"
  /\ CurrentSelector(action, lookups) = EmptySelector

\* C12 as stated: an Action that was given a selector has called
\* recursiveLocatorLookup exactly once when it performs its effect.
C12_Original ==
  (effects # << >> /\ ~(action.type = "Press" /\ ~action.sequential)) =>
    lookups = 1

\* C12 (as amended): an Action calls recursiveLocatorLookup once for each
\* selector its method resolves (twice for DragAndDrop, target first and
\* source second; never for Press.key; once otherwise), and every one of
\* these calls has returned before the one effect is performed.
C12_OncePerSelector ==
  effects # << >> =>
    /\ lookups = CASE action.type = "DragAndDrop"                  -> 2
                   [] action.type = "Press" /\ ~action.sequential  -> 0
                   [] OTHER                                        -> 1
    /\ Len(resolved) = lookups
    /\ Len(effects) = 1
    /\ action.type = "DragAndDrop" =>
         /\ resolved[1] = Lookup(doc, action.selector)
         /\ resolved[2] = Lookup(doc, action.source)

\* C12 witness: a DragAndDrop has dragged after its two lookups.
C12_Witness ==
  /\ stage = "done"
  /\ action.type = "DragAndDrop"
  /\ lookups = 2
  /\ Len(effects) = 1

\* C14: while a lookup is in progress, and when it has failed, nothing has
\* been done to the page; an interaction with an element happens only once
\* the lookups have returned, and on the locator the last one returned.
C14_NoEffectBeforeReturn ==
  /\ stage \in {"lookup", "failed"} => effects = << >>
  /\ \A i \in 1..Len(effects) :
       effects[i].on # {} =>
         /\ resolved # << >>
         /\ effects[i].on = resolved[Len(resolved)]
  /\ (effects # << >> /\ effects[1].on = {}) => action.type = "Press"

\* C14 witness: a Fill has filled the element its lookup returned.
C14_Witness ==
  /\ stage = "done"
  /\ action.type = "Fill"
  /\ Len(effects) = 1
  /\ effects[1].on = resolved[1]

\* The elements the locator of the call in progress matches now.
Matched == Lookup(doc, req.sel)

\* C13: a count assertion never resolves a single handle (no evaluation of
\* the resolver, no handle, no AmbiguousMatchError); it returns exactly when
\* the number of matching elements agrees with the expectation, however many
\* they are, and fails only with an assertion error at a moment when the
\* number disagrees and the timeout has ended.
C13_CountQueryOnly ==
  req.op = "checkSelectorCount" =>
    /\ evals = 0
    /\ handle = {}
    /\ err \in {"none", "AssertionError"}
    /\ pc = "returned" =>
         (Cardinality(Matched) = assertion.count) = assertion.positive
    /\ pc = "failed" =>
         /\ err = "AssertionError"
         /\ (Cardinality(Matched) = assertion.count) # assertion.positive
         /\ Expired(req.timeout, elapsed)

\* C13 witness: haveCount(2) returned true for a selector matching two
\* elements, one of them hidden.
C13_Witness ==
  /\ req.op = "checkSelectorCount"
  /\ pc = "returned"
  /\ assertion = [count |-> 2, positive |-> TRUE]
  /\ Cardinality(Matched) = 2
  /\ \E e \in Matched : ~IsVisible(doc, e)

\* C15: when the first evaluation of a call finds at most one match and the
\* requested state satisfied, that same evaluation returns the locator: no
\* time has passed and no poll has been made, whatever the timeout is.
C15_SatisfiedFirstReturnsAtOnce ==
  [][(/\ pc = "eval"
      /\ evals = 0
      /\ Cardinality(Matched) <= 1
      /\ StateSatisfied(req.state, doc, Matched))
     => (/\ pc' = "returned"
         /\ handle' = Matched
         /\ evals' = 1
         /\ elapsed' = 0)]_vars

\* C15 witness: a call with the largest timeout returned an element at its
\* first evaluation.
C15_Witness ==
  /\ pc = "returned"
  /\ req.timeout = MaxTimeout
  /\ evals = 1
  /\ elapsed = 0
  /\ handle # {}

C17_EventNeverMissed ==
  (test # NoTest /\ Supported(test.mode, test.event)) =>
    /\ ~missed
    /\ waitResult \in {"pending", "event"}
    /\ Quiet => (waitResult = "event" /\ clickResult = "done")

\* C17 witness: Wait.forEvent("page") settled with the event although its
\* performAs was reached later than the one of the click.
C17_Witness ==
  /\ test.mode = "event"
  /\ test.event = "page"
  /\ test.clickHops < test.waitHops
  /\ waitResult = "event"
  /\ clickResult = "done"

\* C18: once a bringToFront(p) has completed, p is this.page until the next
\* bringToFront, whatever the browser shows in front meanwhile, and every
\* page-level call made without a page argument since then has worked on p;
\* before the first bringToFront these calls work on the page the ability
\* was created with.
C18_BroughtPageIsCurrent ==
  /\ page = IF brought.now = "none" THEN FirstPage ELSE brought.now
  /\ (used # NoUse /\ ~used.explicit) => used.on = page

\* C18 witness: after Bring.toFront(newPage) and then Bring.toFront(page),
\* haveUrl("/windows") without a page argument held on page while the
\* browser showed another page in front.
C18_Witness ==
  /\ brought = [now |-> "page", before |-> "newPage"]
  /\ used = [call |-> "checkPageUrl", on |-> "page", explicit |-> FALSE,
             result |-> "true"]
  /\ front # "page"

\* C19 as stated: a Get of a key whose last operation was a Set of the
\* value v returns v, for every key and every value.
C19_GetReturnsWhatWasSet ==
  (got.storage # "none" /\ got.was \notin {Never, Removed}) =>
    got.result = got.was

\* C20: a Get of a key that was never set, or was removed since it was last
\* set, returns undefined.
C20_MissingKeyIsUndefined ==
  (got.storage # "none" /\ got.was \in {Never, Removed}) =>
    got.result = Undefined

\* C20 witness: a key of the session storage was set, then removed, and the
\* Get after that returned undefined.
C20_Witness ==
  /\ got.storage = "sessionStorage"
  /\ got.was = Removed
  /\ got.result = Undefined
  /\ sessionStorage[got.key] = Absent
\* The question that differs from q in its `not` only, and what
\* Element.answeredBy comes to for a question whose mode is visible or
\* enabled.
Negated(q) == [q EXCEPT !.positive = ~q.positive]

ResultOf(d, q) == (CHOOSE a \in ElementAnswers(d, q) : TRUE).result

Answered == answer # NoAnswer /\ question.kind = "Element"

C22_AbsentIsNotVisible ==
  [][(/\ pc = "eval"
      /\ req.op = "checkVisibilityState"
      /\ req.state = "hidden"
      /\ Matched = {})
     => (/\ pc' = "returned"
         /\ err' = "none"
         /\ toBeHidden(doc', handle') = "true")]_vars

\* C22 witness: a negative visibility check has returned for a selector that
\* matches no element, after it had to wait for the element to go.
C22_Witness ==
  /\ pc = "returned"
  /\ req.op = "checkVisibilityState"
  /\ req.state = "hidden"
  /\ Matched = {}
  /\ evals > 1

\* C23: what a Head request sends is a request of method HEAD to the
\* request's url with the request's headers.
C23_HeadSendsHead ==
  (request.type = "Head" /\ sent # NoSent) =>
    /\ sent.method = "HEAD"
    /\ sent.url = request.url
    /\ sent.headers = request.headers

\* The state the question asks for holds of the elements m on document d.
AsAsked(d, m, q) ==
  LET holds == IF q.mode = "visible"
               THEN \E e \in m : IsVisible(d, e)
               ELSE \E e \in m : e \notin Disabled
  IN holds = (q.positive /\ q.options.flag # "false")

C25_ScreenOfVerifiesItsPage ==
  (/\ answer # NoAnswer
   /\ question.kind = "Screen"
   /\ question.page # "undefined"
   /\ answer.check # "none") =>
    answer.on = question.page

\* C26: performing Configure.geolocation(g) with g null or undefined calls
\* setGeolocation and does not throw.
C26_NullOrUndefinedIsUnavailable ==
  (/\ configure.mode = "geolocation"
   /\ configure.geolocation \in {Null, Undefined}
   /\ context.result # "none") =>
    /\ context.call = "setGeolocation"
    /\ context.result = "void"

\* The check method behind an operator of an Element or a Screen.
CheckFor(kind, op) ==
  IF kind = "Element" THEN CheckOf(op)
  ELSE CASE op = "haveUrl"   -> "checkPageUrl"
         [] op = "haveTitle" -> "checkPageTitle"
         [] OTHER            -> "checkPageScreenshot"

\* C27 as stated: when mode operators have been called on an instance,
\* answeredBy makes one check, that of the last operator called, with that
\* operator's payload (when it takes one) and options.
C27_Original ==
  (answer # NoAnswer /\ chain.modes >= 1) =>
    /\ answer.check = CheckFor(question.kind, chain.last.op)
    /\ answer.options = chain.last.options
    /\ chain.last.op \notin StateModes => answer.payload = chain.last.payload

\* C27: when mode operators have been called on an instance, answeredBy
\* goes by the last operator called alone: it makes the check of that
\* operator with its payload (when it takes one) and options, or, when that
\* payload fails the operator's schema, no check at all and throws.
C27_LastOperatorWins ==
  (answer # NoAnswer /\ chain.modes >= 1) =>
    /\ answer.check = IF Guard(chain.last.op, chain.last.payload)
                      THEN CheckFor(question.kind, chain.last.op)
                      ELSE "none"
    /\ answer.options = chain.last.options
    /\ chain.last.op \notin StateModes => answer.payload = chain.last.payload

\* C27 witness: two operators were called, a payload operator first and a
\* state operator last, and the question was answered.
C27_Witness ==
  /\ answer # NoAnswer
  /\ chain.modes >= 2
  /\ chain.last.op \in StateModes
  /\ question.payload # String("")
  /\ answer.check = CheckOf(chain.last.op)

\* C28: once `.not` has been accessed on an instance, its positive flag is
\* false and stays false whatever is called on the instance afterwards, a
\* second `.not` included; the check answeredBy makes is the negative one.
C28_NotIsOneWay ==
  [][(/\ question.kind # "none"
      /\ question'.kind # "none"
      /\ ~question.positive \/ chain'.nots > chain.nots)
     => (/\ ~question'.positive
         /\ answer' # NoAnswer => ~answer'.positive)]_vars

\* C28 witness: `.not` was accessed twice and a mode operator called, and
\* the question asked was the negative one.
C28_Witness ==
  /\ chain.nots >= 2
  /\ chain.modes >= 1
  /\ ~question.positive
  /\ answer # NoAnswer
  /\ ~answer.positive

\* C29: after a bringToFront that was rejected, this.page is the page that
\* was current before the call.
C29_FailedBringKeepsPage ==
  (used.call = "bringToFront" /\ used.result = "throws") =>
    page = IF brought.before = "none" THEN FirstPage ELSE brought.before

\* C30 as stated: answeredBy never throws; it always gets to its check.
C30_Original ==
  answer # NoAnswer => answer.check # "none"

\* C30: the stored payload passes the schema of the stored mode, and
\* answeredBy gets to its check, for every instance except one whose last
\* operator was haveCount(NaN); that one throws "incompatible payload".  No
\* instance has a mode answeredBy does not know.
C30_PayloadFitsMode ==
  LET nan == question.mode = "haveCount" /\ question.payload = Number("NaN")
  IN /\ question.kind = "Element" => question.mode \in StateModes \cup PayloadModes
     /\ question.kind = "Screen" => question.mode \in ScreenModes
     /\ question.kind # "none" => (Guard(question.mode, question.payload) <=> ~nan)
     /\ answer # NoAnswer => (answer.check # "none" <=> ~nan)
     /\ (answer # NoAnswer /\ nan) =>
          answer.result = "Element.haveCount: incompatible payload."

\* C30 witness: a Screen instance was asked with nothing but `.not` called
\* on it, and the payload it was made with passed the schema of haveUrl.
C30_Witness ==
  /\ question.kind = "Screen"
  /\ chain.modes = 0
  /\ chain.nots >= 1
  /\ answer.check = "checkPageUrl"
  /\ answer.payload = String("")

====
